---- MODULE Spec2Model ----
(***************************************************************************)
(* A model of the gnss_tools command-line utilities: the argument          *)
(* validators (validate_sv_id, validate_observer_position), the render     *)
(* functions with their label decimation, and a run of the ground-track    *)
(* and sky-plot tools from module load to exit.  Four specifications share *)
(* the definitions: SpecObserver and SpecSvId apply a validator to every   *)
(* input of a bounded set, SpecRender makes one render call, SpecCli runs  *)
(* a tool on a command line.                                               *)
(*                                                                         *)
(* Numbers are integers (the boundaries of every range test of the code    *)
(* are integers, and the float operations involved are exact on them).     *)
(* A Python value is a tagged record: a float [t |-> "float", v |-> n], a  *)
(* str [t |-> "str", v |-> <<characters>>], a list [t |-> "list", v |->    *)
(* <<values>>], or None.  The outcome of an evaluation is a record with    *)
(* the exception it raised, if any.                                        *)
(***************************************************************************)
EXTENDS Integers, Sequences, FiniteSets, TLC

VARIABLES
    \* validate_observer_position called with a numeric 3-vector
    pos,        \* the 3-vector handed to the validator
    vres,       \* what the validator did with it
    resolved,   \* what main()'s observer resolution did with the accepted vector
    \* validate_sv_id called with a token
    sv_token,   \* the token
    sres,       \* what the validator did with it
    label,      \* the identifier main() builds from the accepted token
    \* a pygmt render call
    rfn,        \* the render function called
    rargs,      \* the caller's arguments: sv_id, the coordinate container, the labels, save
    rout,       \* what the call did: the figure calls, the caller's container afterwards
    \* a run of one of the tools
    script,     \* the file run
    installed,  \* the plotting packages that can be imported
    argv,       \* the command line: sp3, sv_id, observer, save
    pc,         \* the place the run has reached
    args,       \* the namespace parse_command_line() returned
    observer,   \* main()'s pos (sky-plot tool)
    orbit,      \* the loaded orbit: the satellites of the file, the samples of each
    sv_id,      \* main()'s sv_id, a pair (letter, number)
    nsamples,   \* sp3[1], the number of samples the lookup returned
    did,        \* the steps of the run that were carried out, in order
    log,        \* the messages logged
    exit_code,  \* the exit code, once pc = "exit"
    uncaught,   \* the exception that ended the run, if one did
    failure     \* main()'s failure, what orbit.loadSp3 returned

obsVars == <<pos, vres, resolved>>
svVars == <<sv_token, sres, label>>
renderVars == <<rfn, rargs, rout>>
cliVars == <<script, installed, argv, pc, args, observer, orbit, sv_id, nsamples, did, log,
             exit_code, uncaught, failure>>
vars == <<pos, vres, resolved, sv_token, sres, label, rfn, rargs, rout, script, installed,
          argv, pc, args, observer, orbit, sv_id, nsamples, did, log, exit_code, uncaught,
          failure>>

-----------------------------------------------------------------------------
(* Python values *)

None == [t |-> "None", v |-> 0]
Float(x) == [t |-> "float", v |-> x]
Str(s) == [t |-> "str", v |-> s]
List(xs) == [t |-> "list", v |-> xs]

NoExc == [type |-> "", message |-> ""]
Exc(type, message) == [type |-> type, message |-> message]
\* the outcome of evaluating an expression: a value, or an exception raised
Ok(v) == [exc |-> NoExc, val |-> v]
Raised(e) == [exc |-> e, val |-> None]
IsOk(r) == r.exc = NoExc

Digits == <<"0", "1", "2", "3", "4", "5", "6", "7", "8", "9">>
IsDigit(c) == \E d \in 1..10 : Digits[d] = c
DigitValue(c) == (CHOOSE d \in 1..10 : Digits[d] = c) - 1

Abs(x) == IF x < 0 THEN -x ELSE x

RECURSIVE DigitsValue(_)
\* the base-10 value of a sequence of digits
DigitsValue(s) ==
    IF s = <<>> THEN 0
    ELSE 10 * DigitsValue(SubSeq(s, 1, Len(s) - 1)) + DigitValue(s[Len(s)])

AllDigits(s) == \A i \in 1..Len(s) : IsDigit(s[i])

\* float(x) for the values of the model: a float is itself, a str is parsed.
\* The strings of the model are made of signs, digits and letters: an
\* optional sign and one or more digits is a number, the rest a ValueError
PyFloat(x) ==
    IF x.t = "float" THEN Ok(x.v)
    ELSE LET s == x.v
             signed == s # <<>> /\ s[1] \in {"-", "+"}
             body == IF signed THEN Tail(s) ELSE s
         IN IF body # <<>> /\ AllDigits(body)
            THEN Ok(IF signed /\ s[1] = "-" THEN -DigitsValue(body)
                    ELSE DigitsValue(body))
            ELSE Raised(Exc("ValueError", "could not convert string to float"))

\* pos[i] (i counted from 0): an element of a list, a character of a str
GetItem(x, i) ==
    IF i + 1 <= Len(x.v)
    THEN Ok(IF x.t = "str" THEN Str(<<x.v[i + 1]>>) ELSE x.v[i + 1])
    ELSE Raised(Exc("IndexError", "index out of range"))

-----------------------------------------------------------------------------
(* np.linalg.norm(pos) compared with a threshold.  The squares exceed the  *)
(* integers of the checker, so a square is kept as <<high, low>> in base   *)
(* 10^8: x^2 = high * 10^8 + low, and norm(pos) < t iff dot(pos, pos) <    *)
(* t^2.                                                                    *)

Square(x) ==
    LET a == Abs(x) \div 10000
        b == Abs(x) % 10000
        m == 2 * a * b
        low == (m % 10000) * 10000 + b * b
    IN <<a * a + m \div 10000 + low \div 100000000, low % 100000000>>

RECURSIVE Dot(_)
\* x.dot(x) of a sequence of integers
Dot(xs) ==
    IF xs = <<>> THEN <<0, 0>>
    ELSE LET r == Dot(Tail(xs))
             s == Square(Head(xs))
         IN <<r[1] + s[1] + (r[2] + s[2]) \div 100000000,
              (r[2] + s[2]) % 100000000>>

WideLess(p, q) == p[1] < q[1] \/ (p[1] = q[1] /\ p[2] < q[2])

\* the elements of the array np.asarray(pos).astype(float).ravel(): a str is
\* one element, a list is its elements, each converted as float() does
AsFloatArray(x) ==
    LET items == IF x.t = "list" THEN x.v ELSE <<x>>
        conv == [i \in 1..Len(items) |-> PyFloat(items[i])]
    IN IF \A i \in 1..Len(items) : IsOk(conv[i])
       THEN Ok([i \in 1..Len(items) |-> conv[i].val])
       ELSE Raised(Exc("ValueError", "could not convert string to float"))

\* a comparison that puts the threshold itself on the lower side
NormLessOrEqual(x, t) ==
    LET arr == AsFloatArray(x)
    IN IF IsOk(arr) THEN Ok(~WideLess(Square(t), Dot(arr.val))) ELSE Raised(arr.exc)

\* np.linalg.norm(x) < t
NormLess(x, t) ==
    LET arr == AsFloatArray(x)
    IN IF IsOk(arr) THEN Ok(WideLess(Dot(arr.val), Square(t))) ELSE Raised(arr.exc)

-----------------------------------------------------------------------------
(* validate_observer_position *)

\* argparse.ArgumentError(*args): the constructor takes (argument, message)
ArgumentError(given) ==
    IF Len(given) = 2 THEN Exc("ArgumentError", given[2])
    ELSE Exc("TypeError", "ArgumentError.__init__() missing 1 required positional argument: 'message'")

\* the range test of component i in the geographic branch
GeographicInRange(i, x) ==
    CASE i = 0 -> -180 <= x /\ x <= 360
      [] i = 1 -> -90 <= x /\ x <= 90
      [] OTHER -> 0 <= x /\ x < 9000

\* the range test of component i in the ECEF branch
EcefInRange(i, x) == Abs(x) < 6400000

RECURSIVE RangeChecks(_, _, _)
\* the conjunction of the three range tests, evaluated left to right from
\* component i and stopping at the first that is false or raises
RangeChecks(p, branch, i) ==
    IF i > 2 THEN Ok(TRUE)
    ELSE LET item == GetItem(p, i)
             f == IF IsOk(item) THEN PyFloat(item.val) ELSE Raised(item.exc)
         IN IF ~IsOk(f) THEN f
            ELSE IF (IF branch = "geographic" THEN GeographicInRange(i, f.val)
                     ELSE EcefInRange(i, f.val))
                 THEN RangeChecks(p, branch, i + 1)
                 ELSE Ok(FALSE)

\* validate_observer_position(pos): checks is the branch taken
validate_observer_position(p) ==
    LET grange == NormLess(p, 6300000)
        branch == IF grange.val = TRUE THEN "geographic" ELSE "ecef"
        inrange == RangeChecks(p, branch, 0)
    IN IF ~IsOk(grange) THEN [checks |-> "none", exc |-> grange.exc, val |-> None]
       ELSE IF ~IsOk(inrange) THEN [checks |-> branch, exc |-> inrange.exc, val |-> None]
       ELSE IF ~inrange.val
            THEN [checks |-> branch,
                  exc |-> ArgumentError(<<IF branch = "geographic"
                                          THEN "Geographic coordinates out of range."
                                          ELSE "ECEF coordinates out of range.">>),
                  val |-> None]
            ELSE [checks |-> branch, exc |-> NoExc, val |-> p]

-----------------------------------------------------------------------------
(* main() of the sky-plot tool: the observer's position *)

\* np.radians(x) and tools.tool_geocart_GRS80(lon, lat, h) are not computed:
\* their results are kept as terms over their arguments
Radians(x) == [t |-> "radians", v |-> x]
GeoCart(lon, lat, h) == [t |-> "geocart", v |-> <<lon, lat, h>>]

\* the threshold test of main(): np.linalg.norm(pos) < 6.3e7
MainIsGeographic(p) == NormLess(p, 63000000)

\* pos = args.observer and the conversion that follows; np.radians raises a
\* TypeError on str elements
ResolveObserver(p) ==
    LET geo == MainIsGeographic(p)
    IN IF ~IsOk(geo) THEN [converted |-> FALSE, exc |-> geo.exc, val |-> None]
       ELSE IF ~geo.val THEN [converted |-> FALSE, exc |-> NoExc, val |-> p]
       ELSE IF \E i \in 1..2 : p.v[i].t # "float"
            THEN [converted |-> FALSE,
                  exc |-> Exc("TypeError", "ufunc 'radians' not supported for the input types"),
                  val |-> None]
            ELSE [converted |-> TRUE, exc |-> NoExc,
                  val |-> GeoCart(Radians(p.v[1]), Radians(p.v[2]),
                                  p.v[3])]

-----------------------------------------------------------------------------
(* The observer rule on numeric 3-vectors: the validator is applied to a   *)
(* vector, and main()'s resolution to the vector it accepted.              *)

\* the components tried: the boundaries of every range test, and the
\* examples of the specification
ObserverValues ==
    {-6400000, -6399999, -200, -181, -180, -91, -90, -1, 0, 24, 38, 90, 91,
     360, 361, 500, 3549, 3550, 8999, 9000, 4000000, 6299999, 6300000,
     6399999, 6400000, 7000000}

Pending == [checks |-> "pending", exc |-> NoExc, val |-> None]
Unresolved == [converted |-> FALSE, exc |-> Exc("pending", ""), val |-> None]

Vec(x, y, z) == List(<<Float(x), Float(y), Float(z)>>)
Component(p, i) == p.v[i].v

SvIdle == sv_token = <<>> /\ sres = Pending /\ label = <<"?">>
RenderIdle ==
    /\ rfn = ""
    /\ rargs = [sv_id |-> <<>>, geo |-> <<>>, labels |-> <<>>, save |-> FALSE]
    /\ rout = [exc |-> Exc("pending", ""), fig |-> <<>>, geo |-> <<>>, labels |-> <<>>, saved |-> {}]

NoArgv == [sp3 |-> "", sv_id |-> None, observer |-> None, save |-> FALSE]
NoOrbit == [ListSat |-> <<>>, nepoch |-> 0]

CliIdle ==
    /\ script = ""
    /\ installed = {}
    /\ argv = NoArgv
    /\ pc = ""
    /\ args = NoArgv
    /\ observer = None
    /\ orbit = NoOrbit
    /\ sv_id = <<>>
    /\ nsamples = 0
    /\ did = <<>>
    /\ log = <<>>
    /\ exit_code = 0
    /\ uncaught = NoExc
    /\ failure = FALSE

InitObserver ==
    /\ \E x, y, z \in ObserverValues : pos = Vec(x, y, z)
    /\ vres = Pending
    /\ resolved = Unresolved
    /\ SvIdle
    /\ RenderIdle
    /\ CliIdle

ValidateObserver ==
    /\ vres = Pending
    /\ vres' = validate_observer_position(pos)
    /\ UNCHANGED <<pos, resolved, svVars, renderVars, cliVars>>

Resolve ==
    /\ vres # Pending
    /\ vres.exc = NoExc
    /\ resolved = Unresolved
    /\ resolved' = ResolveObserver(vres.val)
    /\ UNCHANGED <<pos, vres, svVars, renderVars, cliVars>>

NextObserver == ValidateObserver \/ Resolve

SpecObserver == InitObserver /\ [][NextObserver]_vars

\* the squared norm in units of 10^6, bounded from below by the components
\* rounded down to thousands and from above by them rounded up
FloorK(x) == Abs(x) \div 1000
CeilK(x) == (Abs(x) + 999) \div 1000
SumSq(a, b, c) == a * a + b * b + c * c
SurelyBelow(p) ==
    SumSq(CeilK(Component(p, 1)), CeilK(Component(p, 2)), CeilK(Component(p, 3)))
        < 6300 * 6300
SurelyNotBelow(p) ==
    SumSq(FloorK(Component(p, 1)), FloorK(Component(p, 2)), FloorK(Component(p, 3)))
        >= 6300 * 6300

Validated == vres # Pending

\* C1: a 3-vector of norm r < 6.3e6 gets only the geographic range checks, a
\* 3-vector of norm r >= 6.3e6 (r = 6.3e6 included) only the ECEF range
\* checks, and the classification is a function of the vector.
C1_Classification ==
    Validated =>
        /\ vres.checks \in {"geographic", "ecef"}
        /\ vres.checks = "geographic" <=> WideLess(Dot([i \in 1..3 |-> Component(pos, i)]), <<396900, 0>>)
        /\ SurelyBelow(pos) => vres.checks = "geographic"
        /\ SurelyNotBelow(pos) => vres.checks = "ecef"
        /\ pos = Vec(6300000, 0, 0) => vres.checks = "ecef"
        /\ pos = Vec(6299999, 0, 0) => vres.checks = "geographic"
        /\ pos = Vec(6299999, 3549, 0) => vres.checks = "geographic"
        /\ pos = Vec(6299999, 3550, 0) => vres.checks = "ecef"
        /\ pos = Vec(0, -6400000, 0) => vres.checks = "ecef"

\* the vector of norm exactly 6.3e6 has been classified
C1_Witness == Validated /\ pos = Vec(6300000, 0, 0) /\ vres.checks = "ecef"

InGeographicRange(p) ==
    /\ -180 <= Component(p, 1) /\ Component(p, 1) <= 360
    /\ -90 <= Component(p, 2) /\ Component(p, 2) <= 90
    /\ 0 <= Component(p, 3) /\ Component(p, 3) < 9000

InEcefRange(p) == \A i \in 1..3 : -6400000 < Component(p, i) /\ Component(p, i) < 6400000

GeographicRangeError == Exc("ArgumentError", "Geographic coordinates out of range.")
EcefRangeError == Exc("ArgumentError", "ECEF coordinates out of range.")

\* C2: main() converts the accepted observer vector (degrees to radians,
\* geographic to Cartesian) exactly when the validator classified it as
\* geographic; a vector classified as ECEF is passed on unchanged.
C2_ConversionFollowsValidator ==
    resolved # Unresolved =>
        /\ resolved.converted <=> vres.checks = "geographic"
        /\ vres.checks = "ecef" => resolved.val = pos

\* C3: a vector classified as geographic is returned unchanged iff
\* -180 <= lon <= 360, -90 <= lat <= 90 and 0 <= h < 9000, and fails with
\* the geographic range error otherwise.
C3_GeographicRange ==
    (Validated /\ vres.checks = "geographic") =>
        IF InGeographicRange(pos) THEN vres.exc = NoExc /\ vres.val = pos
        ELSE vres.exc = GeographicRangeError

\* the part of C3 that the code does satisfy: returned unchanged iff in range
GeographicAcceptedIffInRange ==
    (Validated /\ vres.checks = "geographic") =>
        /\ vres.exc = NoExc <=> InGeographicRange(pos)
        /\ vres.exc = NoExc => vres.val = pos

\* C4: a vector classified as ECEF is returned unchanged iff every component
\* is below 6.4e6 in absolute value, and fails with the ECEF range error
\* (never the geographic one) otherwise.
C4_EcefRange ==
    (Validated /\ vres.checks = "ecef") =>
        IF InEcefRange(pos) THEN vres.exc = NoExc /\ vres.val = pos
        ELSE vres.exc = EcefRangeError

\* the part of C4 that the code does satisfy: returned unchanged iff in range
EcefAcceptedIffInRange ==
    (Validated /\ vres.checks = "ecef") =>
        /\ vres.exc = NoExc <=> InEcefRange(pos)
        /\ vres.exc = NoExc => vres.val = pos
        /\ vres.exc # GeographicRangeError

-----------------------------------------------------------------------------
(* validate_sv_id *)

IsSpace(c) == c = " "

RECURSIVE LStrip(_)
LStrip(s) == IF s # <<>> /\ IsSpace(s[1]) THEN LStrip(Tail(s)) ELSE s

RECURSIVE RStrip(_)
RStrip(s) ==
    IF s # <<>> /\ IsSpace(s[Len(s)]) THEN RStrip(SubSeq(s, 1, Len(s) - 1)) ELSE s

\* digits, with single underscores allowed between two digits
IsDigitGroup(s) ==
    /\ s # <<>>
    /\ IsDigit(s[1])
    /\ IsDigit(s[Len(s)])
    /\ \A i \in 1..Len(s) : IsDigit(s[i]) \/ s[i] = "_"
    /\ \A i \in 1..(Len(s) - 1) : ~(s[i] = "_" /\ s[i + 1] = "_")

RemoveUnderscores(s) == SelectSeq(s, LAMBDA c : c # "_")

\* int(s) of a str, base 10: surrounding whitespace is dropped, one sign is
\* allowed, then digits; anything else is a ValueError
PyInt(s) ==
    LET t == RStrip(LStrip(s))
        signed == t # <<>> /\ t[1] \in {"-", "+"}
        body == IF signed THEN Tail(t) ELSE t
    IN IF IsDigitGroup(body)
       THEN Ok(IF signed /\ t[1] = "-" THEN -DigitsValue(RemoveUnderscores(body))
               ELSE DigitsValue(RemoveUnderscores(body)))
       ELSE Raised(Exc("ValueError", "invalid literal for int() with base 10"))

\* argparse.ArgumentTypeError(message)
ArgumentTypeError(message) == Exc("ArgumentTypeError", message)

\* sv_id.startswith(('G', 'R', 'E'))
StartsWithConstellation(s) == s # <<>> /\ s[1] \in {"G", "R", "E"}

\* a validator that tries the number before the constellation letter
validate_sv_id_number_first(s) ==
    IF ~IsOk(PyInt(IF s = <<>> THEN s ELSE Tail(s)))
    THEN Raised(ArgumentTypeError("Invalid SV ID."))
    ELSE IF ~StartsWithConstellation(s)
         THEN Raised(ArgumentTypeError("Invalid SV constellation."))
         ELSE Ok(s)

\* validate_sv_id(sv_id), sv_id a str given by its characters
validate_sv_id(s) ==
    IF ~StartsWithConstellation(s)
    THEN Raised(ArgumentTypeError("Invalid SV constellation."))
    ELSE IF ~IsOk(PyInt(Tail(s)))
         THEN Raised(ArgumentTypeError("Invalid SV ID."))
         ELSE Ok(s)

RECURSIVE NatDigits(_)
\* the decimal digits of n >= 0
NatDigits(n) ==
    IF n < 10 THEN <<Digits[n + 1]>> ELSE Append(NatDigits(n \div 10), Digits[(n % 10) + 1])

\* format(n, 'd'): no padding
FormatD(n) == IF n < 0 THEN <<"-">> \o NatDigits(-n) ELSE NatDigits(n)

\* format(n, '02d'): zero-padded to a width of 2, the sign counted in the width
Format02d(n) ==
    IF n < 0 THEN <<"-">> \o NatDigits(-n)
    ELSE IF n < 10 THEN <<"0">> \o NatDigits(n)
    ELSE NatDigits(n)

\* main(): sv_id = (args.sv_id[0], int(args.sv_id[1:]))
SvIdOf(s) == <<s[1], PyInt(Tail(s)).val>>

\* main(): f'{sv_id[0]}{sv_id[1]:02d}'
SvLabel(id) == <<id[1]>> \o Format02d(id[2])

-----------------------------------------------------------------------------
(* The identifier rule on tokens: the validator is applied to a token, and *)
(* main()'s split and format to the token it accepted.                     *)

MaxTokenLen == 3

TokenChars == {"G", "R", "E", "X", "0", "1", "7", "-", "+", "_", " "}

RECURSIVE TokensOfLen(_)
TokensOfLen(n) ==
    IF n = 0 THEN {<<>>}
    ELSE {Append(s, c) : s \in TokensOfLen(n - 1), c \in TokenChars}

Tokens == UNION {TokensOfLen(n) : n \in 0..MaxTokenLen}

NoLabel == <<"?">>
ObserverIdle == pos = None /\ vres = Pending /\ resolved = Unresolved

InitSvId ==
    /\ sv_token \in Tokens
    /\ sres = Pending
    /\ label = NoLabel
    /\ ObserverIdle
    /\ RenderIdle
    /\ CliIdle

ValidateSvId ==
    /\ sres = Pending
    /\ sres' = validate_sv_id(sv_token)
    /\ UNCHANGED <<sv_token, label, obsVars, renderVars, cliVars>>

BuildLabel ==
    /\ sres # Pending
    /\ IsOk(sres)
    /\ label = NoLabel
    /\ label' = SvLabel(SvIdOf(sres.val))
    /\ UNCHANGED <<sv_token, sres, obsVars, renderVars, cliVars>>

NextSvId == ValidateSvId \/ BuildLabel

SpecSvId == InitSvId /\ [][NextSvId]_vars

\* a letter of {G, R, E} followed by one or more decimal digits
IsLetterDigits(s) == Len(s) >= 2 /\ s[1] \in {"G", "R", "E"} /\ AllDigits(Tail(s))

\* C7: a token made of a letter of {G, R, E} and one or more digits is
\* accepted and returned unchanged, and a token with exactly two digits is
\* given back by main()'s split into (letter, integer) and format as letter
\* and integer zero-padded to 2 digits.
C7_RoundTrip ==
    IsLetterDigits(sv_token) =>
        /\ sres # Pending => sres = Ok(sv_token)
        /\ (label # NoLabel /\ Len(sv_token) = 3) => label = sv_token

\* a two-digit token with a leading zero has been split and formatted
C7_Witness == sv_token = <<"G", "0", "7">> /\ label = <<"G", "0", "7">>

ConstellationError == Exc("ArgumentTypeError", "Invalid SV constellation.")
SatelliteNumberError == Exc("ArgumentTypeError", "Invalid SV ID.")

\* C8: a token (the empty one included) whose first character is none of G,
\* R, E fails with the invalid-constellation error whatever follows: never
\* with the invalid-satellite-number error, never accepted.
C8_ConstellationFirst ==
    (sres # Pending /\ (sv_token = <<>> \/ sv_token[1] \notin {"G", "R", "E"})) =>
        sres.exc = ConstellationError

\* a token with a wrong letter and a remainder that is no number has failed
C8_Witness ==
    /\ sv_token = <<"X", "-", "_">>
    /\ sres # Pending
    /\ sres.exc = ConstellationError

\* C9: a token starting with G, R or E is accepted iff the rest parses as a
\* nonnegative base-10 integer; any other rest (empty, letters, signed as in
\* '-5') fails with the invalid-satellite-number error.
C9_NonnegativeNumber ==
    (sres # Pending /\ sv_token # <<>> /\ sv_token[1] \in {"G", "R", "E"}) =>
        LET n == PyInt(Tail(sv_token))
        IN IF IsOk(n) /\ n.val >= 0
           THEN sres = Ok(sv_token)
           ELSE sres.exc = SatelliteNumberError

-----------------------------------------------------------------------------
(* The render functions.  A call is given the identifier, the caller's     *)
(* coordinate container (a list of three series), the labels and the save  *)
(* flag; it leaves the calls made on the figure, the caller's container as *)
(* the call left it, and the files written.                                *)

plot_utils_LABELS_INTERVAL == 50
groundtrack_LABELS_INTERVAL == 50
skyplot_LABELS_INTERVAL == 10

PygmtFns ==
    {"plot_utils.plot_track_pygmt", "plot_utils.sky_plot_pygmt",
     "groundtrack.plot_track_pygmt", "skyplot.sky_plot_pygmt"}

RenderFns ==
    PygmtFns \cup {"plot_utils.plot_track_plotly", "groundtrack.plot_track_plotly",
                   "skyplot.sky_plot_matplotlib"}

\* the LABELS_INTERVAL of the module the function is defined in
LabelsInterval(fn) ==
    CASE fn \in {"plot_utils.plot_track_pygmt", "plot_utils.sky_plot_pygmt"} ->
            plot_utils_LABELS_INTERVAL
      [] fn = "groundtrack.plot_track_pygmt" -> groundtrack_LABELS_INTERVAL
      [] OTHER -> skyplot_LABELS_INTERVAL

\* enumerate(xs): the pairs (i, x), i counted from 0
Enumerate(xs) == [k \in 1..Len(xs) |-> <<k - 1, xs[k]>>]

\* a decimation that keeps the last element of every run of n
DecimateOffByOne(xs, n) ==
    LET kept == SelectSeq(Enumerate(xs), LAMBDA p : (p[1] + 1) % n = 0)
    IN [k \in 1..Len(kept) |-> kept[k][2]]

\* [x for i, x in enumerate(xs) if i % n == 0]
Decimate(xs, n) ==
    LET kept == SelectSeq(Enumerate(xs), LAMBDA p : p[1] % n = 0)
    IN [k \in 1..Len(kept) |-> kept[k][2]]

\* np.degrees(xs), kept as a term over each element
Degrees(xs) == [k \in 1..Len(xs) |-> <<"deg", xs[k]>>]

FigCall(name, x, y, text) == [call |-> name, x |-> x, y |-> y, text |-> text]
Setup(name) == FigCall(name, <<>>, <<>>, <<>>)

\* a render that decimates the series before it plots the points
RenderPygmtDecimateFirst(fn, a) ==
    LET n == LabelsInterval(fn)
        kind == IF fn \in {"plot_utils.sky_plot_pygmt", "skyplot.sky_plot_pygmt"}
                THEN "skyplot_" ELSE "ground_track_"
        head == IF kind = "skyplot_"
                THEN <<Setup("config"), Setup("Figure"), Setup("set_panel"), Setup("basemap")>>
                ELSE <<Setup("config"), Setup("Figure"), Setup("set_panel"), Setup("coast"),
                       Setup("basemap")>>
        labels == Decimate(a.labels, n)
        geo0 == Decimate(a.geo[1], n)
        geo1 == Decimate(a.geo[2], n)
        plot == FigCall("plot", Degrees(geo0), Degrees(geo1), <<>>)
        text == FigCall("text", Degrees(geo0), Degrees(geo1), labels)
        png_file == <<"plots", kind, a.sv_id, ".png">>
    IN [exc |-> NoExc,
        fig |-> head \o <<plot, text, Setup("show")>>
                \o (IF a.save THEN <<FigCall("savefig", <<>>, <<>>, png_file)>> ELSE <<>>),
        geo |-> <<geo0, geo1, a.geo[3]>>,
        labels |-> a.labels,
        saved |-> IF a.save THEN {png_file} ELSE {}]

\* a render that binds the decimated series to local names and leaves the
\* caller's container alone
RenderPygmtLocalNames(fn, a) ==
    LET n == LabelsInterval(fn)
        kind == IF fn \in {"plot_utils.sky_plot_pygmt", "skyplot.sky_plot_pygmt"}
                THEN "skyplot_" ELSE "ground_track_"
        head == IF kind = "skyplot_"
                THEN <<Setup("config"), Setup("Figure"), Setup("set_panel"), Setup("basemap")>>
                ELSE <<Setup("config"), Setup("Figure"), Setup("set_panel"), Setup("coast"),
                       Setup("basemap")>>
        plot == FigCall("plot", Degrees(a.geo[1]), Degrees(a.geo[2]), <<>>)
        labels == Decimate(a.labels, n)
        geo0 == Decimate(a.geo[1], n)
        geo1 == Decimate(a.geo[2], n)
        text == FigCall("text", Degrees(geo0), Degrees(geo1), labels)
        png_file == <<"plots", kind, a.sv_id, ".png">>
    IN [exc |-> NoExc,
        fig |-> head \o <<plot, text, Setup("show")>>
                \o (IF a.save THEN <<FigCall("savefig", <<>>, <<>>, png_file)>> ELSE <<>>),
        geo |-> a.geo,
        labels |-> a.labels,
        saved |-> IF a.save THEN {png_file} ELSE {}]

\* plot_track_pygmt and sky_plot_pygmt: the body is the same but for the
\* basemap, the interval and the file name
RenderPygmt(fn, a) ==
    LET n == LabelsInterval(fn)
        kind == IF fn \in {"plot_utils.sky_plot_pygmt", "skyplot.sky_plot_pygmt"}
                THEN "skyplot_" ELSE "ground_track_"
        head == IF kind = "skyplot_"
                THEN <<Setup("config"), Setup("Figure"), Setup("set_panel"), Setup("basemap")>>
                ELSE <<Setup("config"), Setup("Figure"), Setup("set_panel"), Setup("coast"),
                       Setup("basemap")>>
        plot == FigCall("plot", Degrees(a.geo[1]), Degrees(a.geo[2]), <<>>)
        labels == Decimate(a.labels, n)
        geo0 == Decimate(a.geo[1], n)
        geo1 == Decimate(a.geo[2], n)
        text == FigCall("text", Degrees(geo0), Degrees(geo1), labels)
        png_file == <<"plots", kind, a.sv_id, ".png">>
    IN [exc |-> NoExc,
        fig |-> head \o <<plot, text, Setup("show")>>
                \o (IF a.save THEN <<FigCall("savefig", <<>>, <<>>, png_file)>> ELSE <<>>),
        geo |-> <<geo0, geo1, a.geo[3]>>,
        labels |-> a.labels,
        saved |-> IF a.save THEN {png_file} ELSE {}]

\* plot_track_plotly: px.scatter_geo and fig.show()
RenderPlotly(fn, a) ==
    [exc |-> NoExc,
     fig |-> <<FigCall("scatter_geo", Degrees(a.geo[1]), Degrees(a.geo[2]), a.labels),
               Setup("show")>>,
     geo |-> a.geo,
     labels |-> a.labels,
     saved |-> {}]

\* sky_plot_matplotlib: matplotlib.pyplot has no scatter_geo
RenderMatplotlib(fn, a) ==
    [exc |-> Exc("AttributeError", "module 'matplotlib.pyplot' has no attribute 'scatter_geo'"),
     fig |-> <<>>,
     geo |-> a.geo,
     labels |-> a.labels,
     saved |-> {}]

Render(fn, a) ==
    IF fn \in PygmtFns THEN RenderPygmt(fn, a)
    ELSE IF fn = "skyplot.sky_plot_matplotlib" THEN RenderMatplotlib(fn, a)
    ELSE RenderPlotly(fn, a)

-----------------------------------------------------------------------------
(* A render call on a series of every length up to MaxSeriesLen.  The      *)
(* elements of a series are distinct and name their index, so that the     *)
(* place an output element came from can be read off it.                   *)

MaxSeriesLen == 201

Series(c, len) == [i \in 1..len |-> <<c, i - 1>>]

RenderArgs(sv, len, save) ==
    [sv_id |-> sv,
     geo |-> <<Series("c0", len), Series("c1", len), Series("c2", len)>>,
     labels |-> Series("t", len),
     save |-> save]

NotRendered == [exc |-> Exc("pending", ""), fig |-> <<>>, geo |-> <<>>, labels |-> <<>>,
                saved |-> {}]

InitRender ==
    /\ rfn \in RenderFns
    /\ \E len \in 0..MaxSeriesLen, save \in BOOLEAN :
           rargs = RenderArgs(<<"G", "0", "7">>, len, save)
    /\ rout = NotRendered
    /\ ObserverIdle
    /\ SvIdle
    /\ CliIdle

CallRender ==
    /\ rout = NotRendered
    /\ rout' = Render(rfn, rargs)
    /\ UNCHANGED <<rfn, rargs, obsVars, svVars, cliVars>>

NextRender == CallRender

SpecRender == InitRender /\ [][NextRender]_vars

\* the call of the figure named name, when the render made one
CallsNamed(name) == SelectSeq(rout.fig, LAMBDA c : c.call = name)

SeriesLen == Len(rargs.labels)
CeilDiv(a, b) == (a + b - 1) \div b

\* xs holds exactly the elements of the series c at indices 0, n, 2n, ...
IsStride(xs, c, n) ==
    /\ Len(xs) = CeilDiv(SeriesLen, n)
    /\ \A k \in 1..Len(xs) : xs[k] = <<c, (k - 1) * n>> /\ (k - 1) * n <= SeriesLen - 1

Undeg(xs) == [k \in 1..Len(xs) |-> xs[k][2]]

\* C6: the decimation with stride N = LABELS_INTERVAL gives, for the labels
\* and the two coordinate series of length L, exactly the elements at indices
\* 0, N, 2N, ... <= L-1 in order: ceil(L/N) of each, the k-th of each from
\* index k*N (N=50, L=201: 0,50,100,150,200; N=10, L=25: 0,10,20).
C6_Decimation ==
    (rout # NotRendered /\ rfn \in PygmtFns) =>
        LET n == IF rfn = "skyplot.sky_plot_pygmt" THEN 10 ELSE 50
            text == CallsNamed("text")[1]
        IN /\ IsStride(text.text, "t", n)
           /\ IsStride(Undeg(text.x), "c0", n)
           /\ IsStride(Undeg(text.y), "c1", n)
           /\ IsStride(rout.geo[1], "c0", n)
           /\ IsStride(rout.geo[2], "c1", n)
           /\ (n = 50 /\ SeriesLen = 201) =>
                  text.text = <<(<<"t", 0>>), (<<"t", 50>>), (<<"t", 100>>),
                                (<<"t", 150>>), (<<"t", 200>>)>>
           /\ (n = 10 /\ SeriesLen = 25) =>
                  text.text = <<(<<"t", 0>>), (<<"t", 10>>), (<<"t", 20>>)>>

\* a series of 201 elements has been decimated with stride 50
C6_Witness ==
    /\ rout # NotRendered
    /\ rfn = "plot_utils.plot_track_pygmt"
    /\ SeriesLen = 201
    /\ Len(rout.geo[1]) = 5

-----------------------------------------------------------------------------
(* A run of a tool: the module is loaded (which selects the render         *)
(* function), parse_command_line() converts the argument strings, and      *)
(* main() goes through its steps until it returns or the process exits.    *)

bin_EXIT_CODE_FILE_NOT_FOUND == -99
bin_EXIT_CODE_SV_MISSING == -98
groundtrack_EXIT_CODE_FILE_NOT_FOUND == -99
groundtrack_EXIT_CODE_SV_MISSING == -98
skyplot_EXIT_CODE_FILE_NOT_FOUND == -99
skyplot_EXIT_CODE_SV_MISSING == -98

MaxSamples == 3

GroundTrackScripts == {"bin/groundtrack.py", "gnss_tools/groundtrack.py"}
SkyPlotScript == "gnss_tools/skyplot.py"
Scripts == GroundTrackScripts \cup {SkyPlotScript}

Packages == {"pygmt", "plotly", "matplotlib"}

IsNone(x) == x.t = "None"

\* the render function the module binds when it is loaded; "" when an
\* import it needs fails
SelectBackend(f, have) ==
    CASE f = "bin/groundtrack.py" ->
            IF "pygmt" \in have THEN "plot_utils.plot_track_pygmt" ELSE ""
      [] f = "gnss_tools/groundtrack.py" ->
            IF "plotly" \in have THEN "groundtrack.plot_track_plotly"
            ELSE IF "pygmt" \in have THEN "groundtrack.plot_track_pygmt" ELSE ""
      [] OTHER ->
            IF "pygmt" \in have THEN "skyplot.sky_plot_pygmt"
            ELSE IF "matplotlib" \in have THEN "skyplot.sky_plot_matplotlib" ELSE ""

\* an exit code other than the one of the module's constant
LegacyExitCode(f) == -1

\* EXIT_CODE_FILE_NOT_FOUND of the module run
ExitCodeFileNotFound(f) ==
    CASE f = "bin/groundtrack.py" -> bin_EXIT_CODE_FILE_NOT_FOUND
      [] f = "gnss_tools/groundtrack.py" -> groundtrack_EXIT_CODE_FILE_NOT_FOUND
      [] OTHER -> skyplot_EXIT_CODE_FILE_NOT_FOUND

\* EXIT_CODE_SV_MISSING of the module run
ExitCodeSvMissing(f) ==
    CASE f = "bin/groundtrack.py" -> bin_EXIT_CODE_SV_MISSING
      [] f = "gnss_tools/groundtrack.py" -> groundtrack_EXIT_CODE_SV_MISSING
      [] OTHER -> skyplot_EXIT_CODE_SV_MISSING

\* the --sv_id tokens tried
SvTokens ==
    {<<"G", "0", "7">>, <<"R", "0", "1">>, <<"X", "0", "1">>, <<"G", "-", "1">>, <<"G">>}

\* the -o/--observer tokens tried
ObserverTokens ==
    {<<"5", "0", "0">>, <<"2", "4">>, <<"-", "2", "0", "0">>,
     <<"7", "0", "0", "0", "0", "0", "0", "0">>}

\* the default of -o/--observer
DefaultObserver == Vec(24, 38, 500)

\* the orbits a file may hold: the satellites listed, the epochs of each
Orbits ==
    {[ListSat |-> l, nepoch |-> n] :
        l \in {<<>>, <<(<<"G", "0", "7">>)>>, <<(<<"G", "0", "1">>), (<<"R", "0", "1">>)>>},
        n \in 1..MaxSamples}

InitCli ==
    /\ script \in Scripts
    /\ installed \in SUBSET Packages
    /\ \E sv \in {None} \cup {Str(t) : t \in SvTokens},
          ob \in {None} \cup {List(<<Str(a), Str(b), Str(c)>>) : a, b, c \in ObserverTokens},
          save \in BOOLEAN :
           /\ script \in GroundTrackScripts => IsNone(ob)
           /\ argv = [sp3 |-> "orbit.sp3", sv_id |-> sv, observer |-> ob, save |-> save]
    /\ pc = "import"
    /\ args = NoArgv
    /\ observer = None
    /\ orbit = NoOrbit
    /\ sv_id = <<>>
    /\ nsamples = 0
    /\ did = <<>>
    /\ log = <<>>
    /\ exit_code = 0
    /\ uncaught = NoExc
    /\ failure = FALSE
    /\ ObserverIdle
    /\ SvIdle
    /\ RenderIdle

\* the process ends with an uncaught exception: a traceback and exit code 1
Crash(e) ==
    /\ uncaught' = e
    /\ exit_code' = 1
    /\ pc' = "exit"

\* the imports and the binding of plot_track / sky_plot at module load
ImportModule ==
    /\ pc = "import"
    /\ LET fn == SelectBackend(script, installed)
       IN IF fn = ""
          THEN /\ Crash(Exc("ModuleNotFoundError", "No module named"))
               /\ UNCHANGED rfn
          ELSE /\ rfn' = fn
               /\ pc' = "parse"
               /\ UNCHANGED <<exit_code, uncaught>>
    /\ UNCHANGED <<script, installed, argv, args, observer, orbit, sv_id, nsamples, did, log,
                   failure, rargs, rout, obsVars, svVars>>

\* the exceptions of a type function that argparse turns into a usage error
ArgparseCaught == {"ArgumentTypeError", "TypeError", "ValueError"}

\* parse_command_line(): argparse applies the type function of an option to
\* each of its argument strings, in the order of the command line; a
\* default that is not a string is not converted
ParseCommandLine ==
    /\ pc = "parse"
    /\ \E svFirst \in BOOLEAN :
        LET svExc == IF IsNone(argv.sv_id) THEN <<>>
                     ELSE <<validate_sv_id(argv.sv_id.v).exc>>
            obExc == IF IsNone(argv.observer) THEN <<>>
                     ELSE [i \in 1..3 |-> validate_observer_position(argv.observer.v[i]).exc]
            excs == IF svFirst THEN svExc \o obExc ELSE obExc \o svExc
            failed == SelectSeq(excs, LAMBDA e : e # NoExc)
        IN IF failed = <<>>
           THEN /\ args' = [sp3 |-> argv.sp3,
                            sv_id |-> argv.sv_id,
                            observer |-> IF script = SkyPlotScript /\ IsNone(argv.observer)
                                         THEN DefaultObserver ELSE argv.observer,
                            save |-> argv.save]
                /\ pc' = IF script = SkyPlotScript THEN "observer" ELSE "load"
                /\ UNCHANGED <<exit_code, uncaught>>
           ELSE IF failed[1].type \in ArgparseCaught
                THEN /\ exit_code' = 2
                     /\ pc' = "exit"
                     /\ UNCHANGED <<args, uncaught>>
                ELSE /\ Crash(failed[1])
                     /\ UNCHANGED args
    /\ did' = Append(did, "parse_command_line")
    /\ UNCHANGED <<script, installed, argv, observer, orbit, sv_id, nsamples, log, failure,
                   renderVars, obsVars, svVars>>

\* main() of the sky-plot tool: pos = args.observer and its conversion
ObserverPosition ==
    /\ pc = "observer"
    /\ LET r == ResolveObserver(args.observer)
       IN IF r.exc # NoExc
          THEN /\ Crash(r.exc)
               /\ did' = Append(did, "resolve_observer")
               /\ UNCHANGED observer
          ELSE /\ observer' = r.val
               /\ did' = IF r.converted THEN did \o <<"resolve_observer", "convert_observer">>
                         ELSE Append(did, "resolve_observer")
               /\ pc' = "load"
               /\ UNCHANGED <<exit_code, uncaught>>
    /\ UNCHANGED <<script, installed, argv, args, orbit, sv_id, nsamples, log, failure,
                   renderVars, obsVars, svVars>>

\* logging.error(f"File '{args.sp3}' not found.  Exiting.")
FileNotFoundMessage(path) == <<"ERROR", "File '", path, "' not found.  Exiting.">>

\* orbit.loadSp3(args.sp3) and the exit on failure
LoadSp3 ==
    /\ pc = "load"
    /\ did' = Append(did, "loadSp3")
    /\ \/ /\ failure' = TRUE
          /\ log' = Append(log, FileNotFoundMessage(args.sp3))
          /\ exit_code' = ExitCodeFileNotFound(script)
          /\ pc' = "exit"
          /\ UNCHANGED orbit
       \/ /\ failure' = FALSE
          /\ orbit' \in Orbits
          /\ pc' = "sv_id"
          /\ UNCHANGED <<log, exit_code>>
    /\ UNCHANGED <<script, installed, argv, args, observer, sv_id, nsamples, uncaught,
                   renderVars, obsVars, svVars>>

\* the try/except that builds sv_id from args.sv_id or from orbit.ListSat[0]
GetSvInfo ==
    /\ pc = "sv_id"
    /\ IF ~IsNone(args.sv_id)
       THEN /\ sv_id' = SvIdOf(args.sv_id.v)
            /\ pc' = "lookup"
            /\ UNCHANGED <<exit_code, uncaught>>
       ELSE IF orbit.ListSat = <<>>
            THEN /\ Crash(Exc("IndexError", "list index out of range"))
                 /\ UNCHANGED sv_id
            ELSE /\ sv_id' = SvIdOf(orbit.ListSat[1])
                 /\ pc' = "lookup"
                 /\ UNCHANGED <<exit_code, uncaught>>
    /\ UNCHANGED <<script, installed, argv, args, observer, orbit, nsamples, did, log, failure,
                   renderVars, obsVars, svVars>>

\* sp3[1] of orbit.getSp3(letter, number): the epochs of the satellite, 0
\* when the file does not hold it
Epochs(o, id) ==
    IF \E k \in 1..Len(o.ListSat) : SvIdOf(o.ListSat[k]) = id THEN o.nepoch ELSE 0

\* logging.error(f"Satellite '{args.sv_id}' not in file.  Exiting.")
SvMissingMessage(sv) ==
    <<"ERROR", "Satellite '", IF IsNone(sv) THEN <<"None">> ELSE sv.v, "' not in file.  Exiting.">>

\* a lookup that goes on to the labels whatever the number of samples
GetSp3Unchecked ==
    /\ pc = "lookup"
    /\ did' = Append(did, "getSp3")
    /\ nsamples' = Epochs(orbit, sv_id)
    /\ pc' = "labels"
    /\ UNCHANGED <<script, installed, argv, args, observer, orbit, sv_id, log, exit_code,
                   uncaught, failure, renderVars, obsVars, svVars>>

\* orbit.getSp3(*sv_id) and the exit when the orbit is empty
GetSp3 ==
    /\ pc = "lookup"
    /\ did' = Append(did, "getSp3")
    /\ nsamples' = Epochs(orbit, sv_id)
    /\ IF nsamples' = 0
       THEN /\ log' = Append(log, SvMissingMessage(args.sv_id))
            /\ exit_code' = ExitCodeSvMissing(script)
            /\ pc' = "exit"
       ELSE /\ pc' = "labels"
            /\ UNCHANGED <<log, exit_code>>
    /\ UNCHANGED <<script, installed, argv, args, observer, orbit, sv_id, uncaught, failure,
                   renderVars, obsVars, svVars>>

\* time_ = [gpst.gpsdatetime(mjd=x).st_iso_epoch() for x in sp3[0][:, 0]]
TimeLabels ==
    /\ pc = "labels"
    /\ did' = Append(did, "time_labels")
    /\ pc' = "transform"
    /\ UNCHANGED <<script, installed, argv, args, observer, orbit, sv_id, nsamples, log,
                   exit_code, uncaught, failure, renderVars, obsVars, svVars>>

\* whether main()'s pos is still the list of argument strings
ObserverIsStrings == observer.t = "list" /\ \E i \in 1..3 : observer.v[i].t = "str"

\* the transform of the ECEF series: toolCartGeoGRS80 (ground track) or
\* tool_az_ele_h (sky plot); what the library does with an observer given as
\* strings is not known here: it raises or it returns
Transform ==
    /\ pc = "transform"
    /\ did' = Append(did, "transform")
    /\ \/ /\ pc' = "plot"
          /\ UNCHANGED <<exit_code, uncaught>>
       \/ /\ script = SkyPlotScript
          /\ ObserverIsStrings
          /\ Crash(Exc("TypeError", "unsupported operand type(s)"))
    /\ UNCHANGED <<script, installed, argv, args, observer, orbit, sv_id, nsamples, log,
                   failure, renderVars, obsVars, svVars>>

\* plot_track(...) / sky_plot(...) and the return of main()
Plot ==
    /\ pc = "plot"
    /\ did' = Append(did, "render")
    /\ rargs' = RenderArgs(SvLabel(sv_id), nsamples, args.save)
    /\ rout' = Render(rfn, rargs')
    /\ IF rout'.exc # NoExc
       THEN Crash(rout'.exc)
       ELSE /\ exit_code' = 0
            /\ pc' = "exit"
            /\ UNCHANGED uncaught
    /\ UNCHANGED <<script, installed, argv, args, observer, orbit, sv_id, nsamples, log,
                   failure, rfn, obsVars, svVars>>

NextCli ==
    \/ ImportModule
    \/ ParseCommandLine
    \/ ObserverPosition
    \/ LoadSp3
    \/ GetSvInfo
    \/ GetSp3
    \/ TimeLabels
    \/ Transform
    \/ Plot

SpecCli == InitCli /\ [][NextCli]_vars

Did(step) == \E k \in 1..Len(did) : did[k] = step

\* the 3-vector that the three -o/--observer strings spell
ObserverVector ==
    List([i \in 1..3 |-> Float(PyFloat(argv.observer.v[i]).val)])

\* the observer rule applied to the three values together
ViolatesObserverRule ==
    /\ ~IsNone(argv.observer)
    /\ validate_observer_position(ObserverVector).exc # NoExc

\* C5: in the sky-plot tool the three -o/--observer values are validated
\* together as one 3-vector, and a 3-vector that violates the observer rule
\* fails during argument parsing: the run does not go on to convert the
\* observer position, load the orbit file or render.
C5_ObserverRejectedAtParse ==
    (script = SkyPlotScript /\ ViolatesObserverRule /\ Did("parse_command_line")) =>
        /\ pc = "exit"
        /\ did = <<"parse_command_line">>
        /\ exit_code # 0

EmptyLookup == Did("getSp3") /\ nsamples = 0

IsPlotFileOfRun(f) ==
    /\ f[2] = (IF script = SkyPlotScript THEN "skyplot_" ELSE "ground_track_")
    /\ f[3] = SvLabel(sv_id)

\* C12: whichever render function the module bound when it was loaded, a
\* render call with the save flag set writes the plot to an image file
\* named ground_track_<SVID> (ground-track tool) or skyplot_<SVID> (sky-plot
\* tool), and a call with the flag clear writes no file.
C12_SaveWritesFile ==
    Did("render") =>
        IF args.save
        THEN Cardinality(rout.saved) = 1 /\ \A f \in rout.saved : IsPlotFileOfRun(f)
        ELSE rout.saved = {}

\* the part of C12 that the code does satisfy: the pygmt render functions
\* write the file exactly when the flag is set, and no function writes a
\* file when it is clear
PygmtSaveWritesFile ==
    Did("render") =>
        /\ rfn \in PygmtFns => C12_SaveWritesFile
        /\ ~args.save => rout.saved = {}

\* C13: in every pygmt render function the points are plotted from the
\* full-resolution series before the decimation, and the decimated series
\* goes to the text call alone: for a series of length L the plot call gets
\* L points and the text call ceil(L/N).
C13_PlotFullThenLabels ==
    (rout # NotRendered /\ rfn \in PygmtFns) =>
        LET n == IF rfn = "skyplot.sky_plot_pygmt" THEN 10 ELSE 50
            at(name) == {k \in 1..Len(rout.fig) : rout.fig[k].call = name}
        IN /\ Cardinality(at("plot")) = 1
           /\ Cardinality(at("text")) = 1
           /\ \A i \in at("plot"), j \in at("text") :
                 /\ i < j
                 /\ rout.fig[i].x = Degrees(rargs.geo[1])
                 /\ rout.fig[i].y = Degrees(rargs.geo[2])
                 /\ Len(rout.fig[i].x) = SeriesLen
                 /\ Len(rout.fig[i].y) = SeriesLen
                 /\ Len(rout.fig[j].x) = CeilDiv(SeriesLen, n)
                 /\ Len(rout.fig[j].y) = CeilDiv(SeriesLen, n)
                 /\ Len(rout.fig[j].text) = CeilDiv(SeriesLen, n)
           /\ \A k \in 1..Len(rout.fig) :
                 (rout.fig[k].call \notin {"plot", "text"}) => rout.fig[k].x = <<>>

\* a sky plot of 25 points: 25 plotted, 3 labelled
C13_Witness ==
    /\ rout # NotRendered
    /\ rfn = "skyplot.sky_plot_pygmt"
    /\ SeriesLen = 25
    /\ Len(CallsNamed("plot")[1].x) = 25
    /\ Len(CallsNamed("text")[1].x) = 3

\* C14: a pygmt render call leaves the caller's label list as it was, puts
\* the decimated series (of length ceil(L/N)) in components 0 and 1 of the
\* caller's coordinate container and leaves component 2 at its length L: the
\* container no longer holds the full series, and for L > 1 (N > 1) its
\* components are no longer of one length.
C14_CallerContainerOverwritten ==
    (rout # NotRendered /\ rfn \in PygmtFns) =>
        LET n == IF rfn = "skyplot.sky_plot_pygmt" THEN 10 ELSE 50
        IN /\ rout.labels = rargs.labels
           /\ Len(rout.labels) = SeriesLen
           /\ Len(rout.geo[1]) = CeilDiv(SeriesLen, n)
           /\ Len(rout.geo[2]) = CeilDiv(SeriesLen, n)
           /\ rout.geo[3] = rargs.geo[3]
           /\ Len(rout.geo[3]) = SeriesLen
           /\ SeriesLen > 1 =>
                 /\ rout.geo[1] # rargs.geo[1]
                 /\ rout.geo[2] # rargs.geo[2]
                 /\ Len(rout.geo[1]) < Len(rout.geo[3])
                 /\ Len(rout.geo[2]) < Len(rout.geo[3])

\* a ground track of 201 points: the caller is left with 5, 5 and 201
C14_Witness ==
    /\ rout # NotRendered
    /\ rfn = "groundtrack.plot_track_pygmt"
    /\ SeriesLen = 201
    /\ Len(rout.geo[1]) = 5
    /\ Len(rout.geo[2]) = 5
    /\ Len(rout.geo[3]) = 201
    /\ rout.labels = rargs.labels

====
